---------------------------- MODULE Spec2Model ----------------------------
(***************************************************************************)
(* A model of the pic-od VS Code extension (src/src/index.ts and           *)
(* src/src/clipboard.ts): clipboard image acquisition with its per-platform *)
(* tool fallback chains, the upload subprocess and the parsing of its       *)
(* output, the formatting of the results and the two command handlers.     *)
(*                                                                         *)
(* Strings are sequences.  Data the code inspects character by character   *)
(* (templates, paths, captured output) are sequences of one-character      *)
(* strings; the literal texts of messages are kept as single fragments.    *)
(***************************************************************************)
EXTENDS Integers, Sequences, FiniteSets, TLC

(***************************************************************************)
(* Bounds of the model.                                                    *)
(***************************************************************************)
MaxPaths == 2
MaxChunks == 3
MaxErrChunks == 1
MaxTemplateParts == 3

(***************************************************************************)
(* Literal texts.                                                          *)
(***************************************************************************)
NL == <<"\n">>
SP == <<" ">>
TokFileName == <<"$", "{", "f", "i", "l", "e", "N", "a", "m", "e", "}">>
TokUrl == <<"$", "{", "u", "r", "l", "}">>
DefaultTemplate == <<"!", "[">> \o TokFileName \o <<"]", "(">> \o TokUrl \o <<")">>
Url1 == <<"h", "t", "t", "p", ":", "/", "/", "a", "/", "1", ".", "p", "n", "g">>
Url2 == <<"h", "t", "t", "p", ":", "/", "/", "a", "/", "2", ".", "p", "n", "g">>
Path1 == <<"/", "i", "/", "1", ".", "p", "n", "g">>
Path2 == <<"/", "i", "/", "2", ".", "p", "n", "g">>
TempPath == <<"/", "t", "m", "p", "/", "c", "l", "i", "p", "b", "o", "a", "r", "d",
              "-", "1", "-", "a", ".", "p", "n", "g">>

(***************************************************************************)
(* String.prototype.trim, split('\n'), filter(Boolean), join('\n') and     *)
(* path.basename, as the runtime computes them.                            *)
(***************************************************************************)
WhiteSpace == {" ", "\t", "\n", "\r", "\f"}

RECURSIVE TrimStart(_)
TrimStart(s) ==
  IF s # <<>> /\ Head(s) \in WhiteSpace THEN TrimStart(Tail(s)) ELSE s

RECURSIVE TrimEnd(_)
TrimEnd(s) ==
  IF s # <<>> /\ s[Len(s)] \in WhiteSpace
    THEN TrimEnd(SubSeq(s, 1, Len(s) - 1))
    ELSE s

Trim(s) == TrimEnd(TrimStart(s))

RECURSIVE SplitAcc(_, _, _)
SplitAcc(s, sep, cur) ==
  IF s = <<>> THEN <<cur>>
  ELSE IF Head(s) = sep THEN <<cur>> \o SplitAcc(Tail(s), sep, <<>>)
  ELSE SplitAcc(Tail(s), sep, Append(cur, Head(s)))

Split(s, sep) == SplitAcc(s, sep, <<>>)

FilterBoolean(xs) == SelectSeq(xs, LAMBDA x : x # <<>>)

RECURSIVE Join(_, _)
Join(xs, sep) ==
  IF xs = <<>> THEN <<>>
  ELSE IF Len(xs) = 1 THEN xs[1]
  ELSE xs[1] \o sep \o Join(Tail(xs), sep)

RECURSIVE StripTrailingSlashes(_)
StripTrailingSlashes(p) ==
  IF Len(p) > 1 /\ p[Len(p)] = "/"
    THEN StripTrailingSlashes(SubSeq(p, 1, Len(p) - 1))
    ELSE p

RECURSIVE AfterLastSlash(_)
AfterLastSlash(p) ==
  IF \E i \in 1..Len(p) : p[i] = "/"
    THEN AfterLastSlash(Tail(p))
    ELSE p

Basename(p) == AfterLastSlash(StripTrailingSlashes(p))

(***************************************************************************)
(* String.prototype.replace with a global regular expression of a literal  *)
(* token and a replacement STRING: the replacement's $-patterns are        *)
(* expanded for every match ($$, $&, $`, $'); the pattern has no capture   *)
(* groups, so $1..$9 and $< stay as written.                               *)
(***************************************************************************)
MatchAt(s, tok, i) ==
  /\ i + Len(tok) - 1 <= Len(s)
  /\ SubSeq(s, i, i + Len(tok) - 1) = tok

RECURSIVE GetSubstitution(_, _, _, _)
GetSubstitution(matched, str, position, repl) ==
  IF repl = <<>> THEN <<>>
  ELSE IF Head(repl) = "$" /\ Len(repl) >= 2 /\ repl[2] \in {"$", "&", "`", "'"}
    THEN (CASE repl[2] = "$" -> <<"$">>
            [] repl[2] = "&" -> matched
            [] repl[2] = "`" -> SubSeq(str, 1, position - 1)
            [] repl[2] = "'" -> SubSeq(str, position + Len(matched), Len(str)))
         \o GetSubstitution(matched, str, position, SubSeq(repl, 3, Len(repl)))
  ELSE <<Head(repl)>> \o GetSubstitution(matched, str, position, Tail(repl))

RECURSIVE ReplaceFrom(_, _, _, _)
ReplaceFrom(s, tok, repl, i) ==
  IF i > Len(s) THEN <<>>
  ELSE IF MatchAt(s, tok, i)
    THEN GetSubstitution(tok, s, i, repl) \o ReplaceFrom(s, tok, repl, i + Len(tok))
  ELSE <<s[i]>> \o ReplaceFrom(s, tok, repl, i + 1)

ReplaceAll(s, tok, repl) == ReplaceFrom(s, tok, repl, 1)

formatUrl(template, result) ==
  ReplaceAll(ReplaceAll(template, TokFileName, result.filename), TokUrl, result.url)

(***************************************************************************)
(* Input sets.                                                             *)
(***************************************************************************)
Platforms == {"darwin", "linux", "win32", "freebsd"}
ClipboardContents == {"empty", "text", "image"}
ExitCodes == {"0", "1", "null"}
ChunkSet == {Url1 \o NL, Url2, NL, SP}
ErrChunkSet == {<<"b", "o", "o", "m">>}
ProfileSet == {<<>>, <<"p">>}
TemplateSet == {DefaultTemplate, TokUrl, <<>>}
PathSet == {Path1, Path2}
EditOutcomes == {"noeditor", "applied", "notapplied", "threw"}

RECURSIVE SeqsUpTo(_, _)
SeqsUpTo(S, n) ==
  IF n = 0 THEN {<<>>}
  ELSE LET shorter == SeqsUpTo(S, n - 1)
       IN  shorter \cup {Append(q, x) : q \in shorter, x \in S}

Selections == SeqsUpTo(PathSet, MaxPaths)

VARIABLES
  platform,       \* os.platform() as read by saveClipboardImage
  clipboard,      \* what the system clipboard holds
  cmd,            \* the command being handled
  pc,             \* the handler's position
  fileState,      \* the file at the generated temp path: absent, empty, nonempty
  tempFile,       \* the handler's local tempFile
  toolLog,        \* the OS tools run so far, with their outcomes
  err,            \* the error being thrown, if any
  imagePaths,     \* handleUpload's argument
  urlTemplate,    \* the template handleUpload read from the configuration
  proc,           \* the upload subprocess: none, running, spawnfail, errored, closed
  stdout,         \* uploadImages' captured standard output
  stderr,         \* uploadImages' captured standard error
  outCount,       \* data events delivered on stdout
  errCount,       \* data events delivered on stderr
  closeCode,      \* the code of the close event
  promise,        \* the promise uploadImages returned
  edits,          \* the outcomes of the editor insertions attempted
  inserted,       \* the texts inserted at the cursor
  notifications,  \* the messages shown to the user
  logs,           \* the lines written to the logger
  spawns,         \* the argument lists the binary was spawned with
  cleanups,       \* calls of cleanupTempFile
  handlerOutcome, \* how the command handler's promise settled
  fmtIn,          \* formatUrl's arguments, when it is exercised on its own
  fmtOut          \* and its result

envVars == <<platform, clipboard>>
acqVars == <<fileState, tempFile, toolLog>>
procVars == <<proc, stdout, stderr, outCount, errCount, closeCode, promise>>
uiVars == <<edits, inserted, notifications, logs>>
fmtVars == <<fmtIn, fmtOut>>
vars == <<platform, clipboard, cmd, pc, fileState, tempFile, toolLog, err, imagePaths,
          urlTemplate, proc, stdout, stderr, outCount, errCount, closeCode, promise,
          edits, inserted, notifications, logs, spawns, cleanups, handlerOutcome,
          fmtIn, fmtOut>>

None == <<>>
NoErr == [type |-> "none", message |-> <<>>]
ClipboardError(message) == [type |-> "ClipboardError", message |-> message]
Error(message) == [type |-> "Error", message |-> message]
NoPromise == [state |-> "none", results |-> <<>>, error |-> <<>>]
Pending == [state |-> "pending", results |-> <<>>, error |-> <<>>]
Resolved(results) == [state |-> "resolved", results |-> results, error |-> <<>>]
Rejected(message) == [state |-> "rejected", results |-> <<>>, error |-> message]
ErrorMessage(message) == [kind |-> "error", message |-> message]
WarningMessage(message) == [kind |-> "warning", message |-> message]

Init ==
  /\ platform = "unread"
  /\ clipboard = "unread"
  /\ cmd = "none"
  /\ pc = "idle"
  /\ fileState = "absent"
  /\ tempFile = None
  /\ toolLog = <<>>
  /\ err = NoErr
  /\ imagePaths = <<>>
  /\ urlTemplate = <<>>
  /\ proc = "none"
  /\ stdout = <<>>
  /\ stderr = <<>>
  /\ outCount = 0
  /\ errCount = 0
  /\ closeCode = "none"
  /\ promise = NoPromise
  /\ edits = <<>>
  /\ inserted = <<>>
  /\ notifications = <<>>
  /\ logs = <<>>
  /\ spawns = <<>>
  /\ cleanups = 0
  /\ handlerOutcome = "pending"
  /\ fmtIn = [template |-> <<>>, filename |-> <<>>, url |-> <<>>]
  /\ fmtOut = [done |-> FALSE, text |-> <<>>]

(***************************************************************************)
(* The file system calls on the temp path, and the OS clipboard tools.     *)
(* A tool's outcome is its exit status and what it left at the path: the   *)
(* tools asked for an image write data only when the clipboard holds one;  *)
(* xsel --clipboard --output writes the clipboard's text.  The two Linux   *)
(* commands redirect into the path, so the shell creates the file whatever *)
(* the tool does (or fails before running it).                             *)
(***************************************************************************)
Unlink(f) == "absent"

Write(f, wrote) ==
  CASE wrote = "none" -> f
    [] wrote = "empty" -> "empty"
    [] wrote = "data" -> "nonempty"

Outcome(ok, wrote) == [ok |-> ok, wrote |-> wrote]

ToolOutcomes(tool, clip) ==
  LET redirects == tool \in {"xclip", "xsel"}
      holds == IF tool = "xsel" THEN clip = "text" ELSE clip = "image"
  IN  {Outcome(FALSE, "none"), Outcome(FALSE, "empty"), Outcome(TRUE, "empty")}
        \cup (IF redirects THEN {} ELSE {Outcome(TRUE, "none")})
        \cup (IF holds THEN {Outcome(TRUE, "data"), Outcome(FALSE, "data")} ELSE {})

Ran(tool, o) == [tool |-> tool, ok |-> o.ok, wrote |-> o.wrote]

(***************************************************************************)
(* The 'upload from clipboard' command: saveClipboardImage.                *)
(***************************************************************************)
InvokeClipboard ==
  /\ pc = "idle"
  /\ \E p \in Platforms, c \in ClipboardContents :
       /\ platform' = p
       /\ clipboard' = c
  /\ cmd' = "clipboard"
  /\ pc' = "extract"
  /\ UNCHANGED <<acqVars, err, imagePaths, urlTemplate, procVars, uiVars, spawns,
                 cleanups, handlerOutcome, fmtVars>>

DarwinPngpaste ==
  /\ pc = "extract"
  /\ platform = "darwin"
  /\ \E o \in ToolOutcomes("pngpaste", clipboard) :
       /\ fileState' = Write(fileState, o.wrote)
       /\ toolLog' = Append(toolLog, Ran("pngpaste", o))
       /\ pc' = IF o.ok THEN "verify" ELSE "darwin_osascript"
  /\ UNCHANGED <<envVars, cmd, tempFile, err, imagePaths, urlTemplate, procVars, uiVars,
                 spawns, cleanups, handlerOutcome, fmtVars>>

DarwinOsascript ==
  /\ pc = "darwin_osascript"
  /\ \E o \in ToolOutcomes("osascript", clipboard) :
       /\ fileState' = Write(fileState, o.wrote)
       /\ toolLog' = Append(toolLog, Ran("osascript", o))
       /\ pc' = IF o.ok THEN "verify" ELSE "acq_catch"
       /\ err' = IF o.ok THEN err
                 ELSE ClipboardError(<<"No image in clipboard. Install pngpaste for better support: brew install pngpaste">>)
  /\ UNCHANGED <<envVars, cmd, tempFile, imagePaths, urlTemplate, procVars, uiVars,
                 spawns, cleanups, handlerOutcome, fmtVars>>

\* One attempt of the Linux chain: exec, stat, and unlink of an empty file,
\* all inside the attempt's try block.  Returns <<file, returned>>.
LinuxAttempt(f, o) ==
  LET written == Write(f, o.wrote)
  IN  IF ~o.ok THEN <<written, FALSE>>
      ELSE IF written = "absent" THEN <<written, FALSE>>
      ELSE IF written = "nonempty" THEN <<written, TRUE>>
      ELSE <<Unlink(written), FALSE>>

LinuxXclip ==
  /\ pc = "extract"
  /\ platform = "linux"
  /\ \E o \in ToolOutcomes("xclip", clipboard) :
       LET r == LinuxAttempt(fileState, o)
       IN  /\ fileState' = r[1]
           /\ toolLog' = Append(toolLog, Ran("xclip", o))
           /\ pc' = IF r[2] THEN "verify" ELSE "linux_xsel"
  /\ UNCHANGED <<envVars, cmd, tempFile, err, imagePaths, urlTemplate, procVars, uiVars,
                 spawns, cleanups, handlerOutcome, fmtVars>>

LinuxXsel ==
  /\ pc = "linux_xsel"
  /\ \E o \in ToolOutcomes("xsel", clipboard) :
       LET r == LinuxAttempt(fileState, o)
       IN  /\ fileState' = r[1]
           /\ toolLog' = Append(toolLog, Ran("xsel", o))
           /\ pc' = IF r[2] THEN "verify" ELSE "acq_catch"
           /\ err' = IF r[2] THEN err
                     ELSE ClipboardError(<<"No image in clipboard or missing clipboard tools. Install xclip: sudo apt install xclip">>)
  /\ UNCHANGED <<envVars, cmd, tempFile, imagePaths, urlTemplate, procVars, uiVars,
                 spawns, cleanups, handlerOutcome, fmtVars>>

WindowsPowershell ==
  /\ pc = "extract"
  /\ platform = "win32"
  /\ \E o \in ToolOutcomes("powershell", clipboard) :
       /\ fileState' = Write(fileState, o.wrote)
       /\ toolLog' = Append(toolLog, Ran("powershell", o))
       /\ pc' = IF o.ok THEN "verify" ELSE "acq_catch"
       /\ err' = IF o.ok THEN err ELSE ClipboardError(<<"No image in clipboard">>)
  /\ UNCHANGED <<envVars, cmd, tempFile, imagePaths, urlTemplate, procVars, uiVars,
                 spawns, cleanups, handlerOutcome, fmtVars>>

UnsupportedPlatform ==
  /\ pc = "extract"
  /\ platform \notin {"darwin", "linux", "win32"}
  /\ err' = ClipboardError(<<"Unsupported platform: ", platform>>)
  /\ pc' = "acq_catch"
  /\ UNCHANGED <<envVars, cmd, acqVars, imagePaths, urlTemplate, procVars, uiVars,
                 spawns, cleanups, handlerOutcome, fmtVars>>

\* A check that only asks whether the file exists.
VerifyExistsOnly(f) ==
  IF f = "absent"
    THEN <<f, Error(<<"ENOENT: no such file or directory, stat">>), FALSE>>
    ELSE <<f, NoErr, TRUE>>

\* The facade's own check: stat throws when the file is missing; an empty
\* file is unlinked and reported as no image.  <<file, error, returned>>
VerifyResult(f) ==
  CASE f = "absent" -> <<f, Error(<<"ENOENT: no such file or directory, stat">>), FALSE>>
    [] f = "empty" -> <<Unlink(f), ClipboardError(<<"No image in clipboard">>), FALSE>>
    [] f = "nonempty" -> <<f, NoErr, TRUE>>

VerifyStaged ==
  /\ pc = "verify"
  /\ LET r == VerifyResult(fileState)
     IN  /\ fileState' = r[1]
         /\ err' = r[2]
         /\ tempFile' = IF r[3] THEN TempPath ELSE tempFile
         /\ pc' = IF r[3] THEN "acq_returned" ELSE "acq_catch"
  /\ UNCHANGED <<envVars, cmd, toolLog, imagePaths, urlTemplate, procVars, uiVars,
                 spawns, cleanups, handlerOutcome, fmtVars>>

\* A catch block that rethrows without removing the file.
CatchNoCleanup(f) == f

\* The catch block of saveClipboardImage: the file after the cleanup.
CatchCleanup(f) == Unlink(f)

AcquireCatch ==
  /\ pc = "acq_catch"
  /\ fileState' = CatchCleanup(fileState)
  /\ err' = IF err.type = "ClipboardError" THEN err
            ELSE ClipboardError(<<"Failed to save clipboard image">>)
  /\ pc' = "cmd_catch"
  /\ UNCHANGED <<envVars, cmd, tempFile, toolLog, imagePaths, urlTemplate, procVars,
                 uiVars, spawns, cleanups, handlerOutcome, fmtVars>>

ClipboardCallUpload ==
  /\ pc = "acq_returned"
  /\ imagePaths' = <<tempFile>>
  /\ pc' = "hu_start"
  /\ UNCHANGED <<envVars, cmd, acqVars, err, urlTemplate, procVars, uiVars, spawns,
                 cleanups, handlerOutcome, fmtVars>>

CmdCatch ==
  /\ pc = "cmd_catch"
  /\ notifications' = Append(notifications,
       ErrorMessage(IF err.type = "ClipboardError" THEN err.message
                    ELSE <<"Failed to read clipboard: ">> \o err.message))
  /\ err' = NoErr
  /\ pc' = "finally"
  /\ UNCHANGED <<envVars, cmd, acqVars, imagePaths, urlTemplate, procVars, edits,
                 inserted, logs, spawns, cleanups, handlerOutcome, fmtVars>>

\* A cleanup that leaves the file.
cleanupNothing(f) == f

\* cleanupTempFile
cleanupTempFile(f) == Unlink(f)

\* A handler that does not await handleUpload before its finally block.
FinallyNotAwaited == pc \in {"finally", "upload_wait"}

FinallyReady == pc = "finally"

Finally ==
  /\ FinallyReady
  /\ fileState' = IF tempFile # None THEN cleanupTempFile(fileState) ELSE fileState
  /\ cleanups' = IF tempFile # None THEN cleanups + 1 ELSE cleanups
  /\ pc' = "done"
  /\ handlerOutcome' = "fulfilled"
  /\ UNCHANGED <<envVars, cmd, tempFile, toolLog, err, imagePaths, urlTemplate, procVars,
                 uiVars, spawns, fmtVars>>

(***************************************************************************)
(* The 'upload from explorer' command.  The dialog returns undefined or an *)
(* empty selection (both modelled as the empty selection), or the chosen   *)
(* files in order.                                                         *)
(***************************************************************************)
InvokeExplorer ==
  /\ pc = "idle"
  /\ cmd' = "explorer"
  /\ \E uris \in Selections :
       /\ imagePaths' = uris
       /\ pc' = IF uris = <<>> THEN "done" ELSE "hu_start"
       /\ handlerOutcome' = IF uris = <<>> THEN "fulfilled" ELSE handlerOutcome
  /\ UNCHANGED <<envVars, acqVars, err, urlTemplate, procVars, uiVars, spawns, cleanups,
                 fmtVars>>

(***************************************************************************)
(* handleUpload and uploadImages.                                          *)
(***************************************************************************)
HandleUploadStart ==
  /\ pc = "hu_start"
  /\ \E t \in TemplateSet : urlTemplate' = t
  /\ pc' = "spawn"
  /\ UNCHANGED <<envVars, cmd, acqVars, err, imagePaths, procVars, uiVars, spawns,
                 cleanups, handlerOutcome, fmtVars>>

SpawnArgs(profile, paths) ==
  <<<<"u", "p", "l", "o", "a", "d">>>>
    \o (IF profile # <<>> THEN <<<<"-", "-", "p", "r", "o", "f", "i", "l", "e">>, profile>>
        ELSE <<>>)
    \o paths

Spawn ==
  /\ pc = "spawn"
  /\ \E profile \in ProfileSet : spawns' = Append(spawns, SpawnArgs(profile, imagePaths))
  /\ \E started \in BOOLEAN : proc' = IF started THEN "running" ELSE "spawnfail"
  /\ promise' = Pending
  /\ pc' = "upload_wait"
  /\ UNCHANGED <<envVars, cmd, acqVars, err, imagePaths, urlTemplate, stdout, stderr,
                 outCount, errCount, closeCode, uiVars, cleanups, handlerOutcome, fmtVars>>

StdoutData ==
  /\ proc = "running"
  /\ outCount < MaxChunks
  /\ \E data \in ChunkSet : stdout' = stdout \o data
  /\ outCount' = outCount + 1
  /\ UNCHANGED <<envVars, cmd, pc, acqVars, err, imagePaths, urlTemplate, proc, stderr,
                 errCount, closeCode, promise, uiVars, spawns, cleanups, handlerOutcome,
                 fmtVars>>

StderrData ==
  /\ proc = "running"
  /\ errCount < MaxErrChunks
  /\ \E data \in ErrChunkSet : stderr' = stderr \o data
  /\ errCount' = errCount + 1
  /\ UNCHANGED <<envVars, cmd, pc, acqVars, err, imagePaths, urlTemplate, proc, stdout,
                 outCount, closeCode, promise, uiVars, spawns, cleanups, handlerOutcome,
                 fmtVars>>

\* A promise settles once: later calls of resolve and reject change nothing.
Settle(p, outcome) == IF p.state = "pending" THEN outcome ELSE p

\* Parsing without the trim.
ParseUrlsNoTrim(out) == FilterBoolean(Split(out, "\n"))

ParseUrls(out) == FilterBoolean(Split(Trim(out), "\n"))

ParseResults(paths, out) ==
  LET urls == ParseUrls(out)
  IN  [index \in 1..Len(paths) |->
        [filename |-> Basename(paths[index]),
         url |-> IF index <= Len(urls) THEN urls[index] ELSE <<>>]]

\* The 'close' listener: what it settles the promise with.
OnClose(code, paths, out, errText) ==
  IF code # "0"
    THEN Rejected(IF errText # <<>> THEN errText
                  ELSE <<"pic-od exited with code ", code>>)
    ELSE Resolved(ParseResults(paths, out))

\* An 'error' listener that settles nothing.
OnErrorIgnored(message) == Pending

\* The 'error' listener.
OnError(message) == Rejected(<<"Failed to execute pic-od: ">> \o message)

\* The runtime emits 'close' after the process ended, or after 'error' when
\* the process could not be spawned (then with a negative code).
ProcClose ==
  /\ proc \in {"running", "errored"}
  /\ \E code \in (IF proc = "running" THEN ExitCodes ELSE {"-2"}) :
       /\ closeCode' = code
       /\ promise' = Settle(promise, OnClose(code, imagePaths, stdout, stderr))
  /\ proc' = "closed"
  /\ UNCHANGED <<envVars, cmd, pc, acqVars, err, imagePaths, urlTemplate, stdout, stderr,
                 outCount, errCount, uiVars, spawns, cleanups, handlerOutcome, fmtVars>>

ProcError ==
  /\ proc = "spawnfail"
  /\ promise' = Settle(promise, OnError(<<"spawn pic-od ENOENT">>))
  /\ proc' = "errored"
  /\ UNCHANGED <<envVars, cmd, pc, acqVars, err, imagePaths, urlTemplate, stdout, stderr,
                 outCount, errCount, closeCode, uiVars, spawns, cleanups, handlerOutcome,
                 fmtVars>>

\* Formatting every result, the ones without a url included.
FormattedUrlsUnfiltered(template, results) ==
  Join([i \in 1..Len(results) |-> formatUrl(template, results[i])], NL)

\* results.filter(r => r.url).map(r => formatUrl(urlTemplate, r)).join('\n')
FormattedUrls(template, results) ==
  LET withUrl == SelectSeq(results, LAMBDA r : r.url # <<>>)
      formatted == [i \in 1..Len(withUrl) |-> formatUrl(template, withUrl[i])]
  IN  Join(formatted, NL)

\* The progress callback after the await of uploadImages.
UploadSettled ==
  /\ pc = "upload_wait"
  /\ promise.state \in {"resolved", "rejected"}
  /\ IF promise.state = "rejected"
       THEN /\ err' = Error(promise.error)
            /\ pc' = "hu_catch"
            /\ UNCHANGED notifications
       ELSE /\ err' = err
            /\ IF FormattedUrls(urlTemplate, promise.results) # <<>>
                 THEN /\ pc' = "insert"
                      /\ UNCHANGED notifications
                 ELSE /\ pc' = "hu_return"
                      /\ notifications' = Append(notifications,
                           WarningMessage(<<"No URLs returned from upload">>))
  /\ UNCHANGED <<envVars, cmd, acqVars, imagePaths, urlTemplate, procVars, edits,
                 inserted, logs, spawns, cleanups, handlerOutcome, fmtVars>>

\* insertTextAtCursor, and the logger.info that follows its return.
InsertTextAtCursor ==
  /\ pc = "insert"
  /\ \E outcome \in EditOutcomes :
       LET text == FormattedUrls(urlTemplate, promise.results)
       IN  /\ edits' = Append(edits, outcome)
           /\ inserted' = IF outcome = "applied" THEN Append(inserted, text) ELSE inserted
           /\ notifications' =
                IF outcome = "noeditor"
                  THEN Append(notifications, WarningMessage(<<"No active text editor">>))
                  ELSE notifications
           /\ err' = IF outcome = "threw"
                       THEN Error(<<"TextEditor#edit not possible on closed editors">>)
                       ELSE err
           /\ logs' = IF outcome = "threw" THEN logs
                      ELSE Append(logs, <<"info", "Uploaded ",
                                          ToString(Len(promise.results)), " image(s)">>)
           /\ pc' = IF outcome = "threw" THEN "hu_catch" ELSE "hu_return"
  /\ UNCHANGED <<envVars, cmd, acqVars, imagePaths, urlTemplate, procVars, spawns,
                 cleanups, handlerOutcome, fmtVars>>

\* A catch block that shows the message and rethrows.
HandleUploadRethrows(e) == e

\* The catch block of handleUpload: the error still thrown after it.
HandleUploadCaught(e) == NoErr

HandleUploadCatch ==
  /\ pc = "hu_catch"
  /\ logs' = Append(logs, <<"error", "Upload failed: ">> \o err.message)
  /\ notifications' = Append(notifications,
                             ErrorMessage(<<"Upload failed: ">> \o err.message))
  /\ err' = HandleUploadCaught(err)
  /\ pc' = "hu_return"
  /\ UNCHANGED <<envVars, cmd, acqVars, imagePaths, urlTemplate, procVars, edits,
                 inserted, spawns, cleanups, handlerOutcome, fmtVars>>

\* handleUpload returns to the command handler that awaited it: the explorer
\* handler ends with it, the clipboard handler goes on to its catch or finally.
HandleUploadReturn ==
  /\ pc = "hu_return"
  /\ pc' = IF cmd = "explorer" THEN "done"
           ELSE IF err # NoErr THEN "cmd_catch" ELSE "finally"
  /\ handlerOutcome' = IF cmd = "explorer"
                         THEN (IF err # NoErr THEN "rejected" ELSE "fulfilled")
                         ELSE handlerOutcome
  /\ UNCHANGED <<envVars, cmd, acqVars, err, imagePaths, urlTemplate, procVars, uiVars,
                 spawns, cleanups, fmtVars>>

Next ==
  \/ InvokeClipboard
  \/ DarwinPngpaste
  \/ DarwinOsascript
  \/ LinuxXclip
  \/ LinuxXsel
  \/ WindowsPowershell
  \/ UnsupportedPlatform
  \/ VerifyStaged
  \/ AcquireCatch
  \/ ClipboardCallUpload
  \/ CmdCatch
  \/ Finally
  \/ InvokeExplorer
  \/ HandleUploadStart
  \/ Spawn
  \/ StdoutData
  \/ StderrData
  \/ ProcClose
  \/ ProcError
  \/ UploadSettled
  \/ InsertTextAtCursor
  \/ HandleUploadCatch
  \/ HandleUploadReturn

Spec == Init /\ [][Next]_vars

(***************************************************************************)
(* formatUrl on its own: the arguments are drawn from templates built of   *)
(* up to MaxTemplateParts pieces and from values that contain the tokens   *)
(* and the $-patterns of String.prototype.replace.                         *)
(***************************************************************************)
RECURSIVE Flatten(_)
Flatten(parts) == IF parts = <<>> THEN <<>> ELSE Head(parts) \o Flatten(Tail(parts))

TemplatePieces == {TokFileName, TokUrl, SP, <<"a">>}
FormatTemplates == {Flatten(q) : q \in SeqsUpTo(TemplatePieces, MaxTemplateParts)}
FormatFileNames == {<<"f">>, TokUrl, <<"$", "&">>, <<"$", "$">>}
FormatUrls == {<<"x">>, TokFileName, <<"$", "'">>, <<"$", "1">>}

FormatInit ==
  /\ platform = "unread"
  /\ clipboard = "unread"
  /\ cmd = "none"
  /\ pc = "idle"
  /\ fileState = "absent"
  /\ tempFile = None
  /\ toolLog = <<>>
  /\ err = NoErr
  /\ imagePaths = <<>>
  /\ urlTemplate = <<>>
  /\ proc = "none"
  /\ stdout = <<>>
  /\ stderr = <<>>
  /\ outCount = 0
  /\ errCount = 0
  /\ closeCode = "none"
  /\ promise = NoPromise
  /\ edits = <<>>
  /\ inserted = <<>>
  /\ notifications = <<>>
  /\ logs = <<>>
  /\ spawns = <<>>
  /\ cleanups = 0
  /\ handlerOutcome = "pending"
  /\ fmtIn \in [template : FormatTemplates, filename : FormatFileNames, url : FormatUrls]
  /\ fmtOut = [done |-> FALSE, text |-> <<>>]

FormatApply ==
  /\ ~fmtOut.done
  /\ fmtOut' = [done |-> TRUE,
                text |-> formatUrl(fmtIn.template,
                                   [filename |-> fmtIn.filename, url |-> fmtIn.url])]
  /\ UNCHANGED <<envVars, cmd, pc, acqVars, err, imagePaths, urlTemplate, procVars,
                 uiVars, spawns, cleanups, handlerOutcome, fmtIn>>

FormatNext == FormatApply

FormatSpec == FormatInit /\ [][FormatNext]_vars

(***************************************************************************)
(* Vocabulary of the properties.  These are stated from the texts          *)
(* themselves (positions in the captured output, components of a path),    *)
(* not through the operators that model the code.                          *)
(***************************************************************************)
RECURSIVE SortedSeq(_)
SortedSeq(S) ==
  IF S = {} THEN <<>>
  ELSE LET m == CHOOSE x \in S : \A y \in S : x <= y
       IN  <<m>> \o SortedSeq(S \ {m})

\* The non-empty lines of a text: its maximal runs of characters other than
\* the newline, in order.
LineStarts(s) == {i \in 1..Len(s) : s[i] # "\n" /\ (i = 1 \/ s[i - 1] = "\n")}
LineEnd(s, i) ==
  CHOOSE j \in i..Len(s) :
    /\ j = Len(s) \/ s[j + 1] = "\n"
    /\ \A k \in i..j : s[k] # "\n"
NonEmptyLines(s) ==
  LET starts == SortedSeq(LineStarts(s))
  IN  [n \in 1..Len(starts) |-> SubSeq(s, starts[n], LineEnd(s, starts[n]))]

\* A text without its leading and trailing whitespace.
Trimmed(s) ==
  IF \A i \in 1..Len(s) : s[i] \in WhiteSpace THEN <<>>
  ELSE LET first == CHOOSE i \in 1..Len(s) :
                      /\ s[i] \notin WhiteSpace
                      /\ \A k \in 1..(i - 1) : s[k] \in WhiteSpace
           cut == CHOOSE d \in 0..(Len(s) - 1) :
                    /\ s[Len(s) - d] \notin WhiteSpace
                    /\ \A e \in 0..(d - 1) : s[Len(s) - e] \in WhiteSpace
       IN  SubSeq(s, first, Len(s) - cut)

\* The last component of a path.
LastComponent(p) ==
  LET named == {i \in 1..Len(p) : p[i] # "/"}
  IN  IF named = {} THEN <<>>
      ELSE LET last == CHOOSE i \in named : \A j \in named : i >= j
               first == CHOOSE i \in 1..last :
                          /\ \A k \in i..last : p[k] # "/"
                          /\ i = 1 \/ p[i - 1] = "/"
           IN  SubSeq(p, first, last)

\* N results in input order, result i with the i-th of the lines, if any.
ResultsFor(paths, lines) ==
  [i \in 1..Len(paths) |->
    [filename |-> LastComponent(paths[i]),
     url |-> IF i <= Len(lines) THEN lines[i] ELSE <<>>]]

\* Both tokens of a template replaced in one pass, the values as given.
RECURSIVE Substituted(_, _, _)
Substituted(template, filename, url) ==
  IF template = <<>> THEN <<>>
  ELSE IF MatchAt(template, TokFileName, 1)
    THEN filename \o Substituted(SubSeq(template, Len(TokFileName) + 1, Len(template)),
                                 filename, url)
  ELSE IF MatchAt(template, TokUrl, 1)
    THEN url \o Substituted(SubSeq(template, Len(TokUrl) + 1, Len(template)),
                            filename, url)
  ELSE <<Head(template)>> \o Substituted(Tail(template), filename, url)

\* The formatted results that have a url, in order, one per line.
RECURSIVE ExpectedTextFrom(_, _, _)
ExpectedTextFrom(template, results, i) ==
  IF i > Len(results) THEN <<>>
  ELSE IF results[i].url = <<>> THEN ExpectedTextFrom(template, results, i + 1)
  ELSE formatUrl(template, results[i])
         \o (IF \E j \in (i + 1)..Len(results) : results[j].url # <<>>
               THEN NL \o ExpectedTextFrom(template, results, i + 1)
               ELSE <<>>)
ExpectedText == ExpectedTextFrom(urlTemplate, promise.results, 1)

ErrorNotes == SelectSeq(notifications, LAMBDA n : n.kind = "error")
NoUrlsWarning == WarningMessage(<<"No URLs returned from upload">>)
NoEditorWarning == WarningMessage(<<"No active text editor">>)
Shown(n) == \E i \in 1..Len(notifications) : notifications[i] = n
TimesShown(n) == Cardinality({i \in 1..Len(notifications) : notifications[i] = n})
ClipboardMessages ==
  { <<"No image in clipboard. Install pngpaste for better support: brew install pngpaste">>,
    <<"No image in clipboard or missing clipboard tools. Install xclip: sudo apt install xclip">>,
    <<"No image in clipboard">>,
    <<"Failed to save clipboard image">> }
    \cup {<<"Unsupported platform: ", p>> : p \in Platforms}

\* The two-line Markdown image list of 1.png and 2.png.
MarkdownExample ==
  <<"!", "[", "1", ".", "p", "n", "g", "]", "(">> \o Url1 \o <<")", "\n">>
    \o <<"!", "[", "2", ".", "p", "n", "g", "]", "(">> \o Url2 \o <<")">>

AcquisitionFailed ==
  cmd = "clipboard" /\ tempFile = None /\ pc \in {"cmd_catch", "finally", "done"}
HandleUploadDone ==
  imagePaths # <<>> /\ pc \in {"cmd_catch", "finally", "done"}
SpawnFailed == proc \in {"spawnfail", "errored"} \/ closeCode = "-2"
SpawnedOnceWith(paths) ==
  /\ Len(spawns) = 1
  /\ Len(spawns[1]) > Len(paths)
  /\ SubSeq(spawns[1], Len(spawns[1]) - Len(paths) + 1, Len(spawns[1])) = paths

(***************************************************************************)
(* C1: whenever saveClipboardImage fails, on every platform and for every  *)
(* outcome of the OS tools, no file exists at the generated temp path when *)
(* the error reaches the caller (nor afterwards).                          *)
(***************************************************************************)
C1_NoStagedFileAfterFailure == AcquisitionFailed => fileState = "absent"

\* The last tool failed after it had written data to the path.
C1_Witness ==
  /\ pc = "cmd_catch"
  /\ tempFile = None
  /\ toolLog # <<>>
  /\ ~toolLog[Len(toolLog)].ok
  /\ toolLog[Len(toolLog)].wrote = "data"

(***************************************************************************)
(* C2: whenever saveClipboardImage returns a path, a file exists at that   *)
(* path and is not empty at the moment of the return, also when a tool     *)
(* reported success without writing data.                                  *)
(***************************************************************************)
C2_ReturnedFileNonEmpty ==
  /\ pc = "acq_returned" => tempFile = TempPath /\ fileState = "nonempty"
  /\ tempFile # None => cmd = "clipboard" /\ toolLog # <<>>

\* A return after a tool that exited with 0 and left an empty file.
C2_Witness ==
  /\ pc = "acq_returned"
  /\ \E i \in 1..Len(toolLog) : toolLog[i].ok /\ toolLog[i].wrote = "empty"

(***************************************************************************)
(* C3: after the 'upload from clipboard' handler has completed, the staged *)
(* file does not exist, whichever branch was taken.                        *)
(***************************************************************************)
C3_NoFileAfterCommand == (cmd = "clipboard" /\ pc = "done") => fileState = "absent"

\* The command completed after a failed upload of a staged file.
C3_Witness ==
  /\ cmd = "clipboard"
  /\ pc = "done"
  /\ cleanups = 1
  /\ promise.state = "rejected"

(***************************************************************************)
(* C4: for N input paths and a subprocess closed with code 0, uploadImages *)
(* resolves with N results in input order, result i having the base name   *)
(* of path i and, as url, the i-th non-empty line of the captured stdout,  *)
(* or the empty string.  (As claimed: the lines of the stdout as captured.)*)
(***************************************************************************)
C4_LinesOfRawStdout ==
  /\ (proc = "closed" /\ closeCode = "0") => promise.state = "resolved"
  /\ promise.state = "resolved" =>
       promise.results = ResultsFor(imagePaths, NonEmptyLines(stdout))

(***************************************************************************)
(* C4, amended: the urls are the non-empty lines of the captured stdout    *)
(* after its leading and trailing whitespace has been removed.             *)
(***************************************************************************)
C4_LinesOfTrimmedStdout ==
  /\ (proc = "closed" /\ closeCode = "0") => promise.state = "resolved"
  /\ promise.state = "resolved" =>
       promise.results = ResultsFor(imagePaths, NonEmptyLines(Trimmed(stdout)))

\* Two paths, one line of output that starts with a space: the second
\* result has the empty url.
C4_Witness ==
  /\ promise.state = "resolved"
  /\ Len(imagePaths) = 2
  /\ stdout # <<>>
  /\ stdout[1] = " "
  /\ promise.results[1].url # <<>>
  /\ promise.results[2].url = <<>>

(***************************************************************************)
(* C5: formatUrl returns the template with every ${fileName} replaced by   *)
(* the filename and every ${url} by the url, the values inserted as given  *)
(* and the rest of the template unchanged.                                 *)
(***************************************************************************)
C5_TokensReplacedByValues ==
  fmtOut.done => fmtOut.text = Substituted(fmtIn.template, fmtIn.filename, fmtIn.url)

(***************************************************************************)
(* C6: uploadImages settles once, and how is decided by how the subprocess *)
(* ends: a close with a code other than 0 rejects with the captured stderr *)
(* or, if that is empty, 'pic-od exited with code N'; a spawn failure      *)
(* rejects with 'Failed to execute pic-od: ...', also after the close      *)
(* event of the same process; only a close with code 0 resolves.           *)
(***************************************************************************)
C6_SettledAsProcessEnded ==
  /\ proc \in {"running", "spawnfail"} => promise.state = "pending"
  /\ proc \in {"errored", "closed"} => promise.state \in {"resolved", "rejected"}
  /\ promise.state = "resolved" => proc = "closed" /\ closeCode = "0"
  /\ promise.state = "rejected" =>
       IF SpawnFailed
         THEN promise.error = <<"Failed to execute pic-od: ", "spawn pic-od ENOENT">>
         ELSE /\ proc = "closed"
              /\ closeCode # "0"
              /\ promise.error = IF stderr # <<>> THEN stderr
                                 ELSE <<"pic-od exited with code ", closeCode>>

\* C6: the promise is settled as the process ended, and once settled it
\* never changes.
C6_SettlesOnce ==
  [](C6_SettledAsProcessEnded)
    /\ [][promise.state \in {"resolved", "rejected"} => promise' = promise]_vars

\* The close event was delivered after the error event of a failed spawn.
C6_Witness ==
  /\ proc = "closed"
  /\ closeCode = "-2"
  /\ promise.state = "rejected"

(***************************************************************************)
(* C7: handleUpload spawns the binary once for the whole batch and then    *)
(* either inserts one text, the formatted results with a url joined by     *)
(* newlines, or, when no result has a url, shows 'No URLs returned from    *)
(* upload' and inserts nothing.  (As claimed.)                             *)
(***************************************************************************)
C7_InsertsOrWarns ==
  HandleUploadDone =>
    /\ SpawnedOnceWith(imagePaths)
    /\ IF \E i \in 1..Len(promise.results) : promise.results[i].url # <<>>
         THEN inserted = <<ExpectedText>>
         ELSE inserted = <<>> /\ Shown(NoUrlsWarning)

(***************************************************************************)
(* C7, amended: the binary is spawned once for the whole batch.  When the  *)
(* upload is rejected, 'Upload failed: ...' is shown and nothing is        *)
(* inserted.  When it resolves and the joined text is not empty, that one  *)
(* text is inserted if an editor is active and applies the edit; without   *)
(* an active editor 'No active text editor' is shown and nothing is        *)
(* inserted.  When the joined text is empty (no result has a url, or the   *)
(* only one formats to the empty string), the 'No URLs returned' warning   *)
(* is shown and nothing is inserted.  Two files, the two urls on two lines *)
(* and the default template give the two-line Markdown image list.         *)
(***************************************************************************)
C7_InsertsWarnsOrReports ==
  HandleUploadDone =>
    /\ SpawnedOnceWith(imagePaths)
    /\ CASE promise.state = "rejected" ->
              /\ inserted = <<>>
              /\ edits = <<>>
              /\ ~Shown(NoUrlsWarning)
              /\ Shown(ErrorMessage(<<"Upload failed: ">> \o promise.error))
         [] promise.state = "resolved" /\ ExpectedText # <<>> ->
              /\ Len(edits) = 1
              /\ inserted = IF edits[1] = "applied" THEN <<ExpectedText>> ELSE <<>>
              /\ Shown(NoEditorWarning) <=> edits[1] = "noeditor"
              /\ ~Shown(NoUrlsWarning)
         [] promise.state = "resolved" /\ ExpectedText = <<>> ->
              /\ inserted = <<>>
              /\ edits = <<>>
              /\ TimesShown(NoUrlsWarning) = 1
    /\ (/\ imagePaths = <<Path1, Path2>>
        /\ stdout = Url1 \o NL \o Url2
        /\ urlTemplate = DefaultTemplate
        /\ inserted # <<>>) => inserted = <<MarkdownExample>>

\* The two-file example, inserted.
C7_Witness ==
  /\ HandleUploadDone
  /\ imagePaths = <<Path1, Path2>>
  /\ stdout = Url1 \o NL \o Url2
  /\ urlTemplate = DefaultTemplate
  /\ inserted = <<MarkdownExample>>

(***************************************************************************)
(* C8: when the clipboard holds no image (it is empty or holds text), the  *)
(* 'upload from clipboard' command shows a clipboard error, never spawns   *)
(* the upload subprocess and inserts nothing, on every platform.           *)
(***************************************************************************)
C8_NoImageNoUpload ==
  (cmd = "clipboard" /\ clipboard # "image") =>
    /\ spawns = <<>>
    /\ inserted = <<>>
    /\ pc = "done" =>
         /\ Len(ErrorNotes) = 1
         /\ ErrorNotes[1].message \in ClipboardMessages

(***************************************************************************)
(* C9: no error escapes a command handler: a failed acquisition, a failed  *)
(* upload (spawn failure, exit code other than 0) and a failed insertion   *)
(* each end in one error notification (the ClipboardError's message as it  *)
(* is, 'Upload failed: <message>' otherwise), the handler's promise is     *)
(* never rejected and no step is run a second time.  A failure is a thrown *)
(* error or a rejected promise.                                            *)
(***************************************************************************)
C9_NoErrorEscapes ==
  /\ handlerOutcome # "rejected"
  /\ Len(spawns) <= 1
  /\ Len(edits) <= 1
  /\ \A i, j \in 1..Len(toolLog) : toolLog[i].tool = toolLog[j].tool => i = j
  /\ pc = "done" =>
       /\ handlerOutcome = "fulfilled"
       /\ err = NoErr
       /\ LET insertFailed == edits = <<"threw">>
              uploadFailed == promise.state = "rejected"
          IN  CASE AcquisitionFailed ->
                     /\ Len(ErrorNotes) = 1
                     /\ ErrorNotes[1].message \in ClipboardMessages
                     /\ spawns = <<>>
                [] ~AcquisitionFailed /\ uploadFailed ->
                     ErrorNotes = <<ErrorMessage(<<"Upload failed: ">> \o promise.error)>>
                [] ~AcquisitionFailed /\ insertFailed ->
                     ErrorNotes = <<ErrorMessage(<<"Upload failed: ",
                                      "TextEditor#edit not possible on closed editors">>)>>
                [] OTHER -> ErrorNotes = <<>>

\* The explorer command ended after the binary could not be spawned.
C9_Witness ==
  /\ cmd = "explorer"
  /\ pc = "done"
  /\ SpawnFailed
  /\ Len(ErrorNotes) = 1

(***************************************************************************)
(* C10: in the 'upload from clipboard' command the staged file is created  *)
(* by the acquisition, exists and is not empty while the upload subprocess *)
(* runs, and is deleted only after the subprocess has closed or failed to  *)
(* spawn and the insertion has finished; cleanupTempFile never runs during *)
(* the upload and runs at most once.                                       *)
(***************************************************************************)
C10_StagedFileLifecycle ==
  cmd = "clipboard" =>
    /\ fileState # "absent" => toolLog # <<>>
    /\ proc # "none" => tempFile = TempPath
    /\ (proc \in {"running", "spawnfail"} \/ pc \in {"upload_wait", "insert", "hu_catch", "hu_return"})
         => fileState = "nonempty" /\ cleanups = 0
    /\ cleanups <= 1
    /\ cleanups = 1 =>
         /\ pc = "done"
         /\ proc \in {"closed", "errored"}
         /\ promise.state \in {"resolved", "rejected"}
    /\ (tempFile # None /\ fileState # "nonempty") => cleanups = 1

\* The staged file was uploaded, its url inserted, and the file deleted.
C10_Witness ==
  /\ cmd = "clipboard"
  /\ cleanups = 1
  /\ fileState = "absent"
  /\ closeCode = "0"
  /\ inserted # <<>>
===========================================================================
